---- MODULE Spec2Model ----
(***************************************************************************)
(* Model of the symbol-table resolution subsystem of the lazy system       *)
(* reader (src/src/lazy/system_reader.rs): the PendingLst buffer, the      *)
(* scan of a `$ion_symbol_table`-annotated struct (process_symbol_table,   *)
(* process_symbols, process_imports) and the commit of the buffer into the *)
(* live symbol table (apply_pending_lst).                                  *)
(***************************************************************************)
EXTENDS Integers, Sequences, FiniteSets, TLC

\* ---------------------------------------------------------------- bounds
\* Longest `symbols` list the input stream holds.
MaxListLen == 2
\* Most fields one symbol-table struct of the input stream holds.
MaxFields == 2
\* Most local (non-system) symbols the live table is allowed to reach.
MaxLocals == 2
MaxStructLen == 3

\* ------------------------------------------------------- program constants
ION_SYMBOL_TABLE == 3
IMPORTS == 6
SYMBOLS == 7

\* ------------------------------------------------------------ input values
\* RawSymbolTokenRef: a symbol ID or a text.
SymbolId(n) == [k |-> "sid", sid |-> n, text |-> ""]
Text(t) == [k |-> "text", sid |-> 0, text |-> t]
NoToken == [k |-> "none", sid |-> 0, text |-> ""]

\* RawSymbolTokenRef::matches_sid_or_text
matches_sid_or_text(tok, sid, text) ==
    IF tok.k = "sid" THEN tok.sid = sid ELSE tok.k = "text" /\ tok.text = text

\* Option<String>: the entries of PendingLst.symbols and of the symbol table.
Some(t) == [some |-> TRUE, text |-> t]
None == [some |-> FALSE, text |-> ""]

\* Elements of a list value, as ExpandedValueRef reads them.
StringElem(t) == [type |-> "string", text |-> t]
NullElem == [type |-> "null", text |-> ""]
IntElem == [type |-> "int", text |-> ""]
Elems == {StringElem("a"), StringElem("symbols"), NullElem, IntElem}

\* Field values, as ExpandedValueRef reads them.
ListValue(es) == [type |-> "list", tok |-> NoToken, elems |-> es]
SymbolValue(tok) == [type |-> "symbol", tok |-> tok, elems |-> <<>>]
NullValue == [type |-> "null", tok |-> NoToken, elems |-> <<>>]
IntValue == [type |-> "int", tok |-> NoToken, elems |-> <<>>]

Lists == UNION {[1..n -> Elems] : n \in 0..MaxListLen}
Values ==
    {ListValue(es) : es \in Lists}
    \cup {SymbolValue(SymbolId(ION_SYMBOL_TABLE)), SymbolValue(Text("$ion_symbol_table")),
          SymbolValue(SymbolId(4)), SymbolValue(Text("a")), NullValue, IntValue}
\* The fields the input stream holds: a `symbols` field with any value, an
\* `imports` field with any scalar or a short list (the code reads no element of
\* it), and a field of another name (the code reads no value of it).
SymbolsFields == [name : {SymbolId(SYMBOLS), Text("symbols")}, value : Values]
ImportsFields ==
    [name : {SymbolId(IMPORTS), Text("imports")},
     value : {v \in Values : v.type = "list" => Len(v.elems) <= 1}]
OtherFields ==
    [name : {SymbolId(4)},
     value : {NullValue, ListValue(<<StringElem("a")>>),
              SymbolValue(SymbolId(ION_SYMBOL_TABLE))}]
Fields == SymbolsFields \cup ImportsFields \cup OtherFields
NoField == [name |-> NoToken, value |-> NullValue]

\* ------------------------------------------------------------ symbol table
\* The Ion 1.0 system symbols, IDs 1..9.
SystemSymbols ==
    << Some("$ion"), Some("$ion_1_0"), Some("$ion_symbol_table"), Some("name"),
       Some("version"), Some("imports"), Some("symbols"), Some("max_id"),
       Some("$ion_shared_symbol_table") >>

\* SymbolTable::reset
reset(table) == SystemSymbols

\* SymbolTable::intern_or_add_placeholder
intern_or_add_placeholder(table, symbol) == Append(table, symbol)

\* -------------------------------------------------------------- PendingLst
PendingLst_new == [has_changes |-> FALSE, is_lst_append |-> FALSE, symbols |-> <<>>]

\* drain_into with the placeholder entries dropped instead of added.
RECURSIVE drain_into_skip_none(_, _)
drain_into_skip_none(table, symbols) ==
    IF symbols = <<>> THEN table
    ELSE drain_into_skip_none(IF Head(symbols).some
                              THEN intern_or_add_placeholder(table, Head(symbols))
                              ELSE table,
                              Tail(symbols))

\* The loop of apply_pending_lst over `pending_lst.symbols.drain(..)`.
RECURSIVE drain_into(_, _)
drain_into(table, symbols) ==
    IF symbols = <<>> THEN table
    ELSE drain_into(intern_or_add_placeholder(table, Head(symbols)), Tail(symbols))

\* apply_pending_lst that resets the table whatever is_lst_append says.
apply_pending_lst_always_reset(table, pending) ==
    IF pending.is_lst_append /\ pending.symbols = <<>>
    THEN [symbol_table |-> table, pending_lst |-> pending]
    ELSE [symbol_table |-> drain_into(reset(table), pending.symbols),
          pending_lst |-> [pending EXCEPT !.symbols = <<>>, !.is_lst_append = FALSE]]

\* apply_pending_lst that empties the table instead of resetting it.
apply_pending_lst_clear(table, pending) ==
    IF pending.is_lst_append /\ pending.symbols = <<>>
    THEN [symbol_table |-> table, pending_lst |-> pending]
    ELSE [symbol_table |->
              drain_into(IF pending.is_lst_append THEN table ELSE <<>>, pending.symbols),
          pending_lst |-> [pending EXCEPT !.symbols = <<>>, !.is_lst_append = FALSE]]

\* apply_pending_lst that iterates the pending symbols without draining them.
apply_pending_lst_no_drain(table, pending) ==
    IF pending.is_lst_append /\ pending.symbols = <<>>
    THEN [symbol_table |-> table, pending_lst |-> pending]
    ELSE [symbol_table |->
              drain_into(IF pending.is_lst_append THEN table ELSE reset(table),
                         pending.symbols),
          pending_lst |-> [pending EXCEPT !.is_lst_append = FALSE]]

apply_pending_lst(table, pending) ==
    IF pending.is_lst_append /\ pending.symbols = <<>>
    THEN [symbol_table |-> table, pending_lst |-> pending]
    ELSE [symbol_table |->
              drain_into(IF pending.is_lst_append THEN table ELSE reset(table),
                         pending.symbols),
          pending_lst |-> [pending EXCEPT !.symbols = <<>>, !.is_lst_append = FALSE]]

\* push_elems that pushes nothing for an element that is not a string.
RECURSIVE push_elems_strings_only(_, _)
push_elems_strings_only(symbols, elems) ==
    IF elems = <<>> THEN symbols
    ELSE push_elems_strings_only(IF Head(elems).type = "string"
                                 THEN Append(symbols, Some(Head(elems).text))
                                 ELSE symbols,
                                 Tail(elems))

\* The loop of process_symbols over the elements of the list.
RECURSIVE push_elems(_, _)
push_elems(symbols, elems) ==
    IF elems = <<>> THEN symbols
    ELSE push_elems(Append(symbols,
                           IF Head(elems).type = "string"
                           THEN Some(Head(elems).text) ELSE None),
                    Tail(elems))

process_symbols(pending, value) ==
    IF value.type = "list"
    THEN [pending EXCEPT !.symbols = push_elems(pending.symbols, value.elems)]
    ELSE pending

\* process_imports that takes any symbol for `$ion_symbol_table`.
process_imports_any_symbol(pending, value) ==
    CASE value.type = "symbol" ->
           [pending_lst |-> [pending EXCEPT !.is_lst_append = TRUE], err |-> FALSE]
      [] value.type = "list" -> [pending_lst |-> pending, err |-> TRUE]
      [] OTHER -> [pending_lst |-> pending, err |-> FALSE]

\* process_imports that starts the pending symbols afresh on `$ion_symbol_table`.
process_imports_restart(pending, value) ==
    CASE value.type = "symbol" ->
           [pending_lst |->
                IF matches_sid_or_text(value.tok, 3, "$ion_symbol_table")
                THEN [pending EXCEPT !.is_lst_append = TRUE, !.symbols = <<>>] ELSE pending,
            err |-> FALSE]
      [] value.type = "list" -> [pending_lst |-> pending, err |-> TRUE]
      [] OTHER -> [pending_lst |-> pending, err |-> FALSE]

process_imports(pending, value) ==
    CASE value.type = "symbol" ->
           [pending_lst |->
                IF matches_sid_or_text(value.tok, 3, "$ion_symbol_table")
                THEN [pending EXCEPT !.is_lst_append = TRUE] ELSE pending,
            err |-> FALSE]
      [] value.type = "list" -> [pending_lst |-> pending, err |-> TRUE]
      [] OTHER -> [pending_lst |-> pending, err |-> FALSE]

\* process_field without the check for a second `symbols` field.
process_field_no_dup_check(pending, found_s, found_i, f) ==
    LET is_s == matches_sid_or_text(f.name, 7, "symbols")
        is_i == matches_sid_or_text(f.name, 6, "imports")
        p1 == IF is_s THEN process_symbols(pending, f.value) ELSE pending
        fs == found_s \/ is_s
    IN  IF is_i /\ found_i
        THEN [pending_lst |-> p1, found_symbols_field |-> fs,
              found_imports_field |-> found_i, err |-> TRUE]
        ELSE IF is_i
             THEN LET r == process_imports(p1, f.value)
                  IN  [pending_lst |-> r.pending_lst, found_symbols_field |-> fs,
                       found_imports_field |-> TRUE, err |-> r.err]
             ELSE [pending_lst |-> p1, found_symbols_field |-> fs,
                   found_imports_field |-> found_i, err |-> FALSE]

\* One iteration of the `for field_result in symbol_table.iter()` loop of
\* process_symbol_table: the state of the loop after `f` is handled.
process_field(pending, found_s, found_i, f) ==
    LET is_s == matches_sid_or_text(f.name, 7, "symbols")
        is_i == matches_sid_or_text(f.name, 6, "imports")
    IN  IF is_s /\ found_s
        THEN [pending_lst |-> pending, found_symbols_field |-> found_s,
              found_imports_field |-> found_i, err |-> TRUE]
        ELSE LET p1 == IF is_s THEN process_symbols(pending, f.value) ELSE pending
                 fs == found_s \/ is_s
             IN  IF is_i /\ found_i
                 THEN [pending_lst |-> p1, found_symbols_field |-> fs,
                       found_imports_field |-> found_i, err |-> TRUE]
                 ELSE IF is_i
                      THEN LET r == process_imports(p1, f.value)
                           IN  [pending_lst |-> r.pending_lst, found_symbols_field |-> fs,
                                found_imports_field |-> TRUE, err |-> r.err]
                      ELSE [pending_lst |-> p1, found_symbols_field |-> fs,
                            found_imports_field |-> found_i, err |-> FALSE]

\* The `for field_result in symbol_table.iter()` loop of process_symbol_table
\* over the fields that are left, with the locals as they stand.
RECURSIVE scan_fields(_, _, _, _)
scan_fields(pending, found_s, found_i, fields) ==
    IF fields = <<>> THEN [pending_lst |-> pending, err |-> FALSE]
    ELSE LET r == process_field(pending, found_s, found_i, Head(fields))
         IN  IF r.err THEN [pending_lst |-> r.pending_lst, err |-> TRUE]
             ELSE scan_fields(r.pending_lst, r.found_symbols_field,
                              r.found_imports_field, Tail(fields))

\* process_symbol_table on a struct with the given fields, in order.
process_symbol_table(pending, fields) == scan_fields(pending, FALSE, FALSE, fields)

\* ------------------------------------------------ top-level value, classified
\* A top-level value as the raw reader hands it over: its Ion type (a typed
\* null has the type it names), whether it is null, and its annotations in
\* order.  Reading an annotation can itself fail, which the iterator reports
\* in place of the token.
MaxAnnotations == 2

InvalidToken == [k |-> "err", sid |-> 0, text |-> ""]
LazyValue(ion_type, is_null, annotations) ==
    [ion_type |-> ion_type, is_null |-> is_null, annotations |-> annotations]

OkBool(b) == [err |-> "ok", value |-> b]
DecodingError == [err |-> "decoding", value |-> FALSE]

is_symbol_table_struct_any_position(lazy_value) ==
    IF lazy_value.ion_type # "struct" THEN OkBool(FALSE)
    ELSE OkBool(\E i \in 1..Len(lazy_value.annotations) :
                    matches_sid_or_text(lazy_value.annotations[i], 3, "$ion_symbol_table"))

is_symbol_table_struct(lazy_value) ==
    IF lazy_value.ion_type # "struct" THEN OkBool(FALSE)
    ELSE IF lazy_value.annotations # << >>
    THEN LET symbol_ref == Head(lazy_value.annotations)
         IN  IF symbol_ref = InvalidToken THEN DecodingError
             ELSE OkBool(matches_sid_or_text(symbol_ref, 3, "$ion_symbol_table"))
    ELSE OkBool(FALSE)

\* symbol_table.read()?.expect_struct()? at the head of process_symbol_table: a
\* null struct reads as a null, which is not a struct.
expect_struct(lazy_value) == IF lazy_value.is_null THEN DecodingError ELSE OkBool(TRUE)

\* The top-level values process_symbol_table is called on.
SymbolTableStructs ==
    { v \in { LazyValue("struct", n, << m >>) :
                  n \in BOOLEAN, m \in {SymbolId(3), Text("$ion_symbol_table")} } :
          is_symbol_table_struct(v) = OkBool(TRUE) }

\* ------------------------------------------------- binary 1.0 value writer
\* A byte is a number in 0..255 and a buffer is a sequence of bytes.  Every
\* write operation takes the encoding buffer it was created over and returns
\* the buffer it leaves behind together with the error it returned, if any.
MAX_INLINE_LENGTH == 13

Ok(buffer) == [buffer |-> buffer, err |-> "ok"]
Failed(buffer, kind) == [buffer |-> buffer, err |-> kind]

\* a | b on bytes.
RECURSIVE bit_or(_, _)
bit_or(a, b) ==
    IF a = 0 THEN b
    ELSE IF b = 0 THEN a
    ELSE 2 * bit_or(a \div 2, b \div 2) + (IF a % 2 = 1 \/ b % 2 = 1 THEN 1 ELSE 0)

\* uint::encode_u64 and DecodedUInt::write_u64: the minimal big-endian bytes of
\* an unsigned magnitude; zero has no bytes.
RECURSIVE encode_u64(_)
encode_u64(magnitude) ==
    IF magnitude = 0 THEN << >>
    ELSE encode_u64(magnitude \div 256) \o << magnitude % 256 >>

\* VarUInt::write_u64: groups of 7 payload bits, one per byte, least significant
\* group first; the final byte carries the high bit.
RECURSIVE VarUInt_write_u64(_)
VarUInt_write_u64(n) ==
    IF n < 128 THEN << 128 + n >>
    ELSE << n % 128 >> \o VarUInt_write_u64(n \div 128)

push_byte(buffer, byte) == Append(buffer, byte)

\* push_bytes putting the new bytes in front of the ones the buffer holds.
push_bytes_in_front(buffer, bytes) == bytes \o buffer

push_bytes(buffer, bytes) == buffer \o bytes

write_symbol_id(buffer, symbol_id) ==
    LET encoded == encode_u64(symbol_id)
        encoded_length == Len(encoded)
    IN  IF encoded_length <= MAX_INLINE_LENGTH
        THEN Ok(push_bytes(push_byte(buffer, bit_or(112, encoded_length)), encoded))
        ELSE Ok(push_bytes(push_bytes(push_byte(buffer, 126),
                                      VarUInt_write_u64(encoded_length)), encoded))

write_lob(buffer, value, type_code) ==
    LET encoded_length == Len(value)
    IN  IF encoded_length <= MAX_INLINE_LENGTH
        THEN Ok(push_bytes(push_byte(buffer, bit_or(type_code, encoded_length)), value))
        ELSE Ok(push_bytes(push_bytes(push_byte(buffer, bit_or(type_code, 14)),
                                      VarUInt_write_u64(encoded_length)), value))

IonTypes == { "null", "bool", "int", "float", "decimal", "timestamp", "symbol",
              "string", "clob", "blob", "list", "sexp", "struct" }

write_null(buffer, ion_type) ==
    LET byte == CASE ion_type = "null"      -> 15
                  [] ion_type = "bool"      -> 31
                  [] ion_type = "int"       -> 47
                  [] ion_type = "float"     -> 79
                  [] ion_type = "decimal"   -> 95
                  [] ion_type = "timestamp" -> 111
                  [] ion_type = "symbol"    -> 127
                  [] ion_type = "string"    -> 143
                  [] ion_type = "clob"      -> 159
                  [] ion_type = "blob"      -> 175
                  [] ion_type = "list"      -> 191
                  [] ion_type = "sexp"      -> 207
                  [] ion_type = "struct"    -> 223
    IN  Ok(push_byte(buffer, byte))

write_bool(buffer, value) == Ok(push_byte(buffer, IF value THEN 17 ELSE 16))

unsigned_abs(value) == IF value >= 0 THEN value ELSE 0 - value

write_i64_always_positive(buffer, value) ==
    LET encoded == encode_u64(unsigned_abs(value))
    IN  Ok(push_bytes(push_byte(buffer, bit_or(32, Len(encoded))), encoded))

write_i64(buffer, value) ==
    LET magnitude == unsigned_abs(value)
        bytes_to_write == encode_u64(magnitude)
        encoded_length == Len(bytes_to_write)
        type_descriptor == IF value >= 0 THEN bit_or(32, encoded_length)
                                         ELSE bit_or(48, encoded_length)
    IN  Ok(push_bytes(push_byte(buffer, type_descriptor), bytes_to_write))

\* An Int is an i64 or a BigInt.  A BigInt is its sign and the big-endian bytes
\* of its magnitude without leading zero bytes; zero has sign "NoSign" and no
\* magnitude bytes.
I64(i) == [data |-> "I64", i |-> i, sign |-> "NoSign", magnitude |-> << >>]
BigInt(sign, magnitude) == [data |-> "BigInt", i |-> 0, sign |-> sign, magnitude |-> magnitude]
is_zero(big) == big.magnitude = << >>
\* BigInt::to_bytes_be: sign and magnitude bytes; zero yields one zero byte.
to_bytes_be(big) ==
    IF is_zero(big) THEN [sign |-> "NoSign", bytes |-> << 0 >>]
    ELSE [sign |-> big.sign, bytes |-> big.magnitude]

write_int_zero_as_magnitude(buffer, value) ==
    IF value.data = "I64" THEN write_i64(buffer, value.i)
    ELSE LET be == to_bytes_be(value)
         IN  Ok(push_bytes(push_byte(buffer, bit_or(32, Len(be.bytes))), be.bytes))

write_int(buffer, value) ==
    IF value.data = "I64" THEN write_i64(buffer, value.i)
    ELSE IF is_zero(value) THEN Ok(push_byte(buffer, 32))
    ELSE LET be == to_bytes_be(value)
             type_descriptor == IF be.sign \in {"Plus", "NoSign"} THEN 32 ELSE 48
             encoded_length == Len(be.bytes)
         IN  IF encoded_length <= 13
             THEN Ok(push_bytes(push_byte(buffer, bit_or(type_descriptor, encoded_length)),
                                be.bytes))
             ELSE Ok(push_bytes(push_bytes(push_byte(buffer, bit_or(type_descriptor, 14)),
                                           VarUInt_write_u64(encoded_length)), be.bytes))

\* A float is its IEEE-754 bit pattern, most significant byte first: 4 bytes
\* for an f32 and 8 for an f64.  value == 0.0 holds of both zeros;
\* is_sign_negative reads the sign bit; to_be_bytes is the pattern itself.
float_eq_zero(value) ==
    /\ value[1] \in {0, 128}
    /\ \A i \in 2..Len(value) : value[i] = 0
is_sign_negative(value) == value[1] >= 128
to_be_bytes(value) == value

write_f32_any_zero(buffer, value) ==
    IF float_eq_zero(value) THEN Ok(push_byte(buffer, 64))
    ELSE Ok(push_bytes(push_byte(buffer, 68), to_be_bytes(value)))

write_f32(buffer, value) ==
    IF float_eq_zero(value) /\ ~is_sign_negative(value)
    THEN Ok(push_byte(buffer, 64))
    ELSE Ok(push_bytes(push_byte(buffer, 68), to_be_bytes(value)))

write_f64(buffer, value) ==
    IF float_eq_zero(value) /\ ~is_sign_negative(value)
    THEN Ok(push_byte(buffer, 64))
    ELSE Ok(push_bytes(push_byte(buffer, 72), to_be_bytes(value)))

write_string_inline_14(buffer, value) ==
    Ok(push_bytes(push_byte(buffer, bit_or(128, IF Len(value) <= 14 THEN Len(value) ELSE 14)),
                  IF Len(value) <= 14 THEN value ELSE VarUInt_write_u64(Len(value)) \o value))

\* value: the UTF-8 bytes of the text.
write_string(buffer, value) ==
    LET encoded_length == Len(value)
    IN  IF encoded_length <= MAX_INLINE_LENGTH
        THEN Ok(push_bytes(push_byte(buffer, bit_or(128, encoded_length)), value))
        ELSE Ok(push_bytes(push_bytes(push_byte(buffer, 142),
                                      VarUInt_write_u64(encoded_length)), value))

write_symbol(buffer, value) ==
    IF value.k = "sid" THEN write_symbol_id(buffer, value.sid)
    ELSE Failed(buffer, "illegal_operation")

write_clob(buffer, value) == write_lob(buffer, value, 144)
write_blob(buffer, value) == write_lob(buffer, value, 160)

LIST_TYPE_CODE == 176
SEXP_TYPE_CODE == 192
STRUCT_TYPE_CODE == 208

\* BinaryContainerWriter_1_0: the children were encoded into a child buffer;
\* sealing the container appends to the parent the descriptor, the VarUInt
\* length when the children take more than 13 bytes, and then the child
\* buffer.  A failed child write abandons the container.
container_end_skip_empty(buffer, type_code, children) ==
    IF children.err # "ok" THEN Failed(buffer, children.err)
    ELSE IF children.buffer = << >> THEN Ok(buffer)
    ELSE Ok(push_bytes(push_byte(buffer, bit_or(type_code, 14)),
                       VarUInt_write_u64(Len(children.buffer)) \o children.buffer))

container_end(buffer, type_code, children) ==
    LET encoded_length == Len(children.buffer)
    IN  IF children.err # "ok" THEN Failed(buffer, children.err)
        ELSE IF encoded_length <= MAX_INLINE_LENGTH
        THEN Ok(push_bytes(push_byte(buffer, bit_or(type_code, encoded_length)),
                           children.buffer))
        ELSE Ok(push_bytes(push_bytes(push_byte(buffer, bit_or(type_code, 14)),
                                      VarUInt_write_u64(encoded_length)), children.buffer))

\* list_fn, sexp_fn, struct_fn: what running the closure over an empty child
\* buffer left there, and the result it returned.
write_list(buffer, list_fn) == container_end(buffer, LIST_TYPE_CODE, list_fn)
write_sexp(buffer, sexp_fn) == container_end(buffer, SEXP_TYPE_CODE, sexp_fn)
write_struct(buffer, struct_fn) == container_end(buffer, STRUCT_TYPE_CODE, struct_fn)

RECURSIVE encode_annotations_sequence_skip_text(_, _)
encode_annotations_sequence_skip_text(buffer, annotations) ==
    IF annotations = << >> THEN Ok(buffer)
    ELSE IF Head(annotations).k # "sid"
    THEN encode_annotations_sequence_skip_text(buffer, Tail(annotations))
    ELSE encode_annotations_sequence_skip_text(
             push_bytes(buffer, VarUInt_write_u64(Head(annotations).sid)), Tail(annotations))

RECURSIVE encode_annotations_sequence(_, _)
encode_annotations_sequence(buffer, annotations) ==
    IF annotations = << >> THEN Ok(buffer)
    ELSE IF Head(annotations).k # "sid" THEN Failed(buffer, "encoding")
    ELSE encode_annotations_sequence(
             push_bytes(buffer, VarUInt_write_u64(Head(annotations).sid)), Tail(annotations))

annotate_encoded_value_value_first(output_buffer, annotations, encoded_value) ==
    LET sequence == encode_annotations_sequence(<< >>, annotations)
        sequence_length == VarUInt_write_u64(Len(sequence.buffer))
        total_length == Len(sequence.buffer) + Len(sequence_length) + Len(encoded_value)
    IN  IF sequence.err # "ok" THEN Failed(output_buffer, sequence.err)
        ELSE Ok(push_byte(output_buffer, bit_or(224, total_length % 16))
                \o encoded_value \o sequence_length \o sequence.buffer)

annotate_encoded_value_push_first(output_buffer, annotations, encoded_value) ==
    LET sequence == encode_annotations_sequence(<< >>, annotations)
    IN  IF sequence.err # "ok" THEN Failed(push_byte(output_buffer, 238), sequence.err)
        ELSE Ok(push_byte(output_buffer, 238) \o sequence.buffer \o encoded_value)

annotate_encoded_value(output_buffer, annotations, encoded_value) ==
    LET encoded_annotations_sequence == encode_annotations_sequence(<< >>, annotations)
        encoded_annotations_sequence_length ==
            VarUInt_write_u64(Len(encoded_annotations_sequence.buffer))
        total_length == Len(encoded_annotations_sequence.buffer)
                        + Len(encoded_annotations_sequence_length)
                        + Len(encoded_value)
        descriptor == IF total_length <= MAX_INLINE_LENGTH
                      THEN << bit_or(224, total_length) >>
                      ELSE << 238 >> \o VarUInt_write_u64(total_length)
    IN  IF encoded_annotations_sequence.err # "ok"
        THEN Failed(output_buffer, encoded_annotations_sequence.err)
        ELSE Ok(output_buffer \o descriptor \o encoded_annotations_sequence_length
                \o encoded_annotations_sequence.buffer \o encoded_value)

\* encode_value_fn: what the value write left in the fresh buffer, and the
\* result it returned.
encode_annotated(output_buffer, annotations, encode_value_fn) ==
    IF encode_value_fn.err # "ok" THEN Failed(output_buffer, encode_value_fn.err)
    ELSE annotate_encoded_value(output_buffer, annotations, encode_value_fn.buffer)

\* ------------------------------------------------------------ written values
\* A value handed to the writer: the ValueWriter method called (op), its
\* argument, the annotations passed to with_annotations (none: the value is
\* written through without_annotations), and, for a field of a struct, the
\* symbol ID of its name.
Value(op) ==
    [op |-> op, ion_type |-> "null", bool |-> FALSE, int |-> I64(0), bytes |-> << >>,
     tok |-> NoToken, children |-> << >>, field |-> 0, annotations |-> << >>]

Null(t) == [Value("write_null") EXCEPT !.ion_type = t]
Bool(b) == [Value("write_bool") EXCEPT !.bool = b]
Int64(i) == [Value("write_i64") EXCEPT !.int = I64(i)]
Integer(n) == [Value("write_int") EXCEPT !.int = n]
F32(bits) == [Value("write_f32") EXCEPT !.bytes = bits]
F64(bits) == [Value("write_f64") EXCEPT !.bytes = bits]
String(utf8) == [Value("write_string") EXCEPT !.bytes = utf8]
Symbol(tok) == [Value("write_symbol") EXCEPT !.tok = tok]
Clob(bytes) == [Value("write_clob") EXCEPT !.bytes = bytes]
Blob(bytes) == [Value("write_blob") EXCEPT !.bytes = bytes]
List(children) == [Value("write_list") EXCEPT !.children = children]
SExp(children) == [Value("write_sexp") EXCEPT !.children = children]
Struct(fields) == [Value("write_struct") EXCEPT !.children = fields]
Annotated(annotations, v) == [v EXCEPT !.annotations = annotations]
Field(name, v) == [v EXCEPT !.field = name]

RECURSIVE write(_, _)
RECURSIVE write_children(_, _, _)

\* The methods of BinaryValueWriter_1_0.
value_writer(buffer, v) ==
    CASE v.op = "write_null"   -> write_null(buffer, v.ion_type)
      [] v.op = "write_bool"   -> write_bool(buffer, v.bool)
      [] v.op = "write_i64"    -> write_i64(buffer, v.int.i)
      [] v.op = "write_int"    -> write_int(buffer, v.int)
      [] v.op = "write_f32"    -> write_f32(buffer, v.bytes)
      [] v.op = "write_f64"    -> write_f64(buffer, v.bytes)
      [] v.op = "write_string" -> write_string(buffer, v.bytes)
      [] v.op = "write_symbol" -> write_symbol(buffer, v.tok)
      [] v.op = "write_clob"   -> write_clob(buffer, v.bytes)
      [] v.op = "write_blob"   -> write_blob(buffer, v.bytes)
      [] v.op = "write_list"   -> write_list(buffer, write_children(<< >>, v.children, FALSE))
      [] v.op = "write_sexp"   -> write_sexp(buffer, write_children(<< >>, v.children, FALSE))
      [] v.op = "write_struct" -> write_struct(buffer, write_children(<< >>, v.children, TRUE))

\* BinaryAnnotatableValueWriter_1_0: without_annotations hands out the value
\* writer over the buffer; with_annotations hands out the annotations wrapper
\* writer, each method of which runs the value writer's method over a fresh
\* buffer inside encode_annotated.
write(buffer, v) ==
    IF v.annotations = << >> THEN value_writer(buffer, v)
    ELSE encode_annotated(buffer, v.annotations, value_writer(<< >>, v))

\* The closure of a container write: the children in order, each through the
\* child writer; a field of a struct is preceded by the VarUInt of its name's
\* symbol ID.  The first failure ends the closure.
write_children(buffer, children, is_struct) ==
    IF children = << >> THEN Ok(buffer)
    ELSE LET child == Head(children)
             named == IF is_struct
                      THEN push_bytes(buffer, VarUInt_write_u64(child.field))
                      ELSE buffer
             written == write(named, child)
         IN  IF written.err # "ok" THEN written
             ELSE write_children(written.buffer, Tail(children), is_struct)

\* ------------------------------------------------------------- writer inputs
MaxPayload == 15
LongPayload == 130
MaxChildren == 2
MaxInt == 2

Payload(n, byte) == [i \in 1..n |-> byte]
PayloadLengths == (0..MaxPayload) \cup {LongPayload}
SeqsUpTo(S, n) == UNION { [1..k -> S] : k \in 0..n }

IntValues == ((0 - MaxInt)..MaxInt) \cup {-65536, -256, -255, 127, 128, 255, 256, 65535}
\* The BigInt holding the integer v.
BigIntOf(v) ==
    IF v = 0 THEN BigInt("NoSign", << >>)
    ELSE BigInt(IF v > 0 THEN "Plus" ELSE "Minus", encode_u64(unsigned_abs(v)))
\* BigInts of n magnitude bytes: 256^(n-1) and its negation.
LongBigInts ==
    { BigInt(s, << 1 >> \o Payload(n - 1, 0)) : s \in {"Plus", "Minus"},
                                                n \in PayloadLengths \ {0} }

\* +0.0, -0.0, 3.0, -1.5, a NaN, the smallest subnormal, +infinity.
F32Values == { << 0, 0, 0, 0 >>, << 128, 0, 0, 0 >>, << 64, 64, 0, 0 >>, << 191, 192, 0, 0 >>,
               << 127, 192, 0, 0 >>, << 0, 0, 0, 1 >>, << 127, 128, 0, 0 >> }
F64Values == { << 0, 0, 0, 0, 0, 0, 0, 0 >>, << 128, 0, 0, 0, 0, 0, 0, 0 >>,
               << 64, 8, 0, 0, 0, 0, 0, 0 >>, << 191, 248, 0, 0, 0, 0, 0, 0 >>,
               << 127, 248, 0, 0, 0, 0, 0, 0 >>, << 0, 0, 0, 0, 0, 0, 0, 1 >>,
               << 127, 240, 0, 0, 0, 0, 0, 0 >> }

SymbolTokens == { SymbolId(0), SymbolId(4), SymbolId(200), SymbolId(65536), Text("foo") }

Scalars ==
    { Null(t) : t \in IonTypes } \cup { Bool(b) : b \in BOOLEAN }
    \cup { Int64(i) : i \in IntValues }
    \cup { Integer(I64(i)) : i \in IntValues }
    \cup { Integer(BigIntOf(i)) : i \in IntValues }
    \cup { Integer(b) : b \in LongBigInts }
    \cup { F32(f) : f \in F32Values } \cup { F64(f) : f \in F64Values }
    \cup { String(Payload(n, 97)) : n \in PayloadLengths }
    \cup { Symbol(tok) : tok \in SymbolTokens }
    \cup { Clob(Payload(n, 98)) : n \in PayloadLengths }
    \cup { Blob(Payload(n, 224)) : n \in PayloadLengths }

\* Children of the containers written: a few scalars, one of them annotated and
\* one that the writer refuses.
Kids == { Int64(1), String(Payload(3, 97)), Symbol(SymbolId(4)),
          Annotated(<< SymbolId(4) >>, Bool(TRUE)), Symbol(Text("foo")) }
FieldIds == { 4, 200 }
FieldKids == { Field(f, k) : f \in FieldIds, k \in Kids }
Containers1 ==
    { List(c) : c \in SeqsUpTo(Kids, MaxChildren) }
    \cup { SExp(c) : c \in SeqsUpTo(Kids, MaxChildren) }
    \cup { Struct(c) : c \in SeqsUpTo(FieldKids, MaxChildren) }
\* Children of the containers that hold containers.
Nested == { List(<< >>), List(<< Int64(1), Int64(-2) >>),
            Annotated(<< SymbolId(4), SymbolId(7) >>, SExp(<< String(Payload(3, 97)) >>)),
            Struct(<< Field(4, Blob(Payload(MaxPayload, 224))) >>), Int64(1) }
Containers2 ==
    { List(c) : c \in SeqsUpTo(Nested, MaxChildren) }
    \cup { SExp(c) : c \in SeqsUpTo(Nested, MaxChildren) }
    \cup { Struct(c) : c \in SeqsUpTo({ Field(4, n) : n \in Nested }, MaxChildren) }

Unannotated == Scalars \cup Containers1 \cup Containers2
AnnotationSeqs ==
    { << SymbolId(4) >>, << SymbolId(4), SymbolId(7) >>, << SymbolId(7), SymbolId(4) >>,
      << SymbolId(200) >>, << Text("foo") >>, << SymbolId(4), Text("foo") >> }
Requests == Unannotated \cup { Annotated(a, v) : a \in AnnotationSeqs, v \in Unannotated }

\* The values a top-level buffer may already hold when a value is written.
EarlierValues == { << >>, << Bool(TRUE) >>, << Int64(1), String(Payload(1, 97)) >> }
NoRequest == Value("none")

\* ------------------------------------------------------------------- state
\* The reader is between two calls of next_item ("idle"), has committed the
\* pending LST and is about to read ("committed"), is in the loop of
\* process_symbol_table before ("iter") or after ("body") the iterator yielded
\* a field, or has returned a decoding error to its caller ("failed"), which
\* ends the read.
VARIABLES
    symbol_table,          \* the live symbol table: entry i is the symbol with ID i
    pending_lst,           \* the PendingLst of the reader
    found_symbols_field,   \* local of process_symbol_table
    found_imports_field,   \* local of process_symbol_table
    field,                 \* the field the struct iterator yielded last
    nfields,               \* number of fields the iterator has yielded
    pc,                    \* position of the reader
    surfaced,              \* the item the consumer was handed last
    struct_list,           \* input: elements of the struct's `symbols` list
    struct_append,         \* input: the struct carries `imports: $ion_symbol_table`
    seen_symbols,          \* input: number of `symbols` fields read from the struct
    pending_before,        \* pending_lst as the running process_symbol_table found it
    seen_imports           \* input: number of `imports` fields read from the struct

VARIABLES
    lazy_value,            \* classification: the top-level value looked at
    classified             \* classification: what is_symbol_table_struct returned

VARIABLES
    output_buffer,         \* writer: the top-level encoding buffer
    earlier,               \* writer: the values output_buffer held at the start
    before,                \* writer: output_buffer as the write found it
    request,               \* writer: the value written
    result                 \* writer: what the write returned

VARIABLES
    commit_table,          \* commit: the live table apply_pending_lst is called on
    commit_pending,        \* commit: the PendingLst it is called with
    commit_calls,          \* commit: calls of apply_pending_lst made so far
    commit_first           \* commit: table and PendingLst as the first call left them

VARIABLES
    order_fields,          \* order: the fields of a structure, in stream order
    order_permuted,        \* order: the same fields in another order
    order_start,           \* order: live table and PendingLst when the scan starts
    order_outcome          \* order: what the scan and the commit gave for both

reader_vars == << symbol_table, pending_lst, found_symbols_field, found_imports_field, field,
                  nfields, pc, surfaced, struct_list, struct_append, seen_symbols,
                  seen_imports, pending_before >>
classify_vars == << lazy_value, classified >>
writer_vars == << output_buffer, earlier, before, request, result >>
commit_vars == << commit_table, commit_pending, commit_calls, commit_first >>
order_vars == << order_fields, order_permuted, order_start, order_outcome >>

vars == << reader_vars, classify_vars, writer_vars, commit_vars, order_vars >>

locals == << found_symbols_field, found_imports_field, field, nfields >>
input == << struct_list, struct_append, seen_symbols, seen_imports >>

ReaderIdle ==
    /\ symbol_table = SystemSymbols
    /\ pending_lst = PendingLst_new
    /\ found_symbols_field = FALSE
    /\ found_imports_field = FALSE
    /\ field = NoField
    /\ nfields = 0
    /\ pc = "idle"
    /\ surfaced = "none"
    /\ struct_list = <<>>
    /\ struct_append = FALSE
    /\ seen_symbols = 0
    /\ seen_imports = 0
    /\ pending_before = PendingLst_new

NotClassified == [err |-> "none", value |-> FALSE]
ClassifyIdle ==
    /\ lazy_value = LazyValue("null", TRUE, << >>)
    /\ classified = NotClassified

WriterIdle ==
    /\ output_buffer = << >>
    /\ earlier = << >>
    /\ before = << >>
    /\ request = NoRequest
    /\ result = "none"

CommitIdle ==
    /\ commit_table = SystemSymbols
    /\ commit_pending = PendingLst_new
    /\ commit_calls = 0
    /\ commit_first = [symbol_table |-> SystemSymbols, pending_lst |-> PendingLst_new]

NoOutcome == [err |-> FALSE, pending_lst |-> PendingLst_new, symbol_table |-> << >>]
NotScanned == [done |-> FALSE, a |-> NoOutcome, b |-> NoOutcome]
OrderIdle ==
    /\ order_fields = << >>
    /\ order_permuted = << >>
    /\ order_start = [symbol_table |-> SystemSymbols, pending_lst |-> PendingLst_new]
    /\ order_outcome = NotScanned

Init == ReaderIdle /\ ClassifyIdle /\ WriterIdle /\ CommitIdle /\ OrderIdle

IsSymbolsName(tok) == tok = SymbolId(SYMBOLS) \/ tok = Text("symbols")
IsImportsName(tok) == tok = SymbolId(IMPORTS) \/ tok = Text("imports")
IsMarker(value) ==
    /\ value.type = "symbol"
    /\ value.tok \in {SymbolId(ION_SYMBOL_TABLE), Text("$ion_symbol_table")}

\* next_item, first part: the pending changes of the symbol table read last are
\* committed before the next item is read.
Commit ==
    /\ pc = "idle"
    /\ pending_lst.has_changes
    /\ LET r == apply_pending_lst(symbol_table, pending_lst)
       IN  /\ symbol_table' = r.symbol_table
           /\ pending_lst' = [r.pending_lst EXCEPT !.has_changes = FALSE]
    /\ pc' = "committed"
    /\ UNCHANGED << classify_vars, writer_vars, commit_vars, order_vars >>
    /\ UNCHANGED << locals, surfaced, input, pending_before >>

CanRead == pc = "committed" \/ (pc = "idle" /\ ~pending_lst.has_changes)

\* next_item, second part: the next top-level item is an ordinary value.
ReadValue ==
    /\ CanRead
    /\ pc' = "idle"
    /\ surfaced' = "value"
    /\ UNCHANGED << classify_vars, writer_vars, commit_vars, order_vars >>
    /\ UNCHANGED << symbol_table, pending_lst, locals, input, pending_before >>

\* next_item, second part: the next top-level item is a symbol table struct;
\* process_symbol_table starts on it.
ReadSymbolTable ==
    /\ CanRead
    /\ \E value \in SymbolTableStructs :
         pc' = IF expect_struct(value).err = "ok" THEN "iter" ELSE "failed"
    /\ found_symbols_field' = FALSE
    /\ found_imports_field' = FALSE
    /\ field' = NoField
    /\ nfields' = 0
    /\ struct_list' = <<>>
    /\ struct_append' = FALSE
    /\ seen_symbols' = 0
    /\ seen_imports' = 0
    /\ pending_before' = pending_lst
    /\ UNCHANGED << classify_vars, writer_vars, commit_vars, order_vars >>
    /\ UNCHANGED << symbol_table, pending_lst, surfaced >>

\* The struct iterator yields its next field.
NextField ==
    /\ pc = "iter"
    /\ nfields < MaxFields
    /\ \E f \in Fields :
        /\ (IsSymbolsName(f.name) /\ f.value.type = "list") =>
               (Len(symbol_table) - Len(SystemSymbols)) + Len(pending_lst.symbols)
                   + Len(f.value.elems) <= MaxLocals
        /\ field' = f
        /\ seen_symbols' = seen_symbols + (IF IsSymbolsName(f.name) THEN 1 ELSE 0)
        /\ seen_imports' = seen_imports + (IF IsImportsName(f.name) THEN 1 ELSE 0)
        /\ struct_list' = IF IsSymbolsName(f.name) /\ seen_symbols = 0 /\ f.value.type = "list"
                          THEN f.value.elems ELSE struct_list
        /\ struct_append' = IF IsImportsName(f.name) /\ seen_imports = 0
                            THEN IsMarker(f.value) ELSE struct_append
    /\ nfields' = nfields + 1
    /\ pc' = "body"
    /\ UNCHANGED << classify_vars, writer_vars, commit_vars, order_vars >>
    /\ UNCHANGED << symbol_table, pending_lst, found_symbols_field, found_imports_field,
                    surfaced, pending_before >>

\* The body of the loop of process_symbol_table on the field just yielded. A
\* decoding error is returned to the caller of next_item and ends the read.
FieldBody ==
    /\ pc = "body"
    /\ LET r == process_field(pending_lst, found_symbols_field, found_imports_field, field)
       IN  /\ pending_lst' = r.pending_lst
           /\ found_symbols_field' = r.found_symbols_field
           /\ found_imports_field' = r.found_imports_field
           /\ pc' = IF r.err THEN "failed" ELSE "iter"
    /\ field' = NoField
    /\ UNCHANGED << classify_vars, writer_vars, commit_vars, order_vars >>
    /\ UNCHANGED << symbol_table, nfields, surfaced, input, pending_before >>

\* The iterator is exhausted: process_symbol_table returns Ok(()) and the struct
\* is handed to the consumer as a symbol table item.
EndStruct ==
    /\ pc = "iter"
    /\ pending_lst' = [pending_lst EXCEPT !.has_changes = TRUE]
    /\ found_symbols_field' = FALSE
    /\ found_imports_field' = FALSE
    /\ nfields' = 0
    /\ seen_symbols' = 0
    /\ seen_imports' = 0
    /\ pc' = "idle"
    /\ surfaced' = "symtab"
    /\ UNCHANGED << classify_vars, writer_vars, commit_vars, order_vars >>
    /\ UNCHANGED << symbol_table, field, struct_list, struct_append, pending_before >>

Next ==
    \/ Commit
    \/ ReadValue
    \/ ReadSymbolTable
    \/ NextField
    \/ FieldBody
    \/ EndStruct

Spec == Init /\ [][Next]_vars

\* ------------------------------------------------------------ classification
\* is_symbol_table_struct applied to a top-level value.
AnnotationTokens == { SymbolId(3), Text("$ion_symbol_table"), SymbolId(4), Text("foo"),
                      InvalidToken }
LazyValues ==
    { LazyValue(t, n, a) : t \in IonTypes, n \in BOOLEAN,
                           a \in SeqsUpTo(AnnotationTokens, MaxAnnotations) }

InitClassify ==
    /\ ReaderIdle
    /\ WriterIdle
    /\ CommitIdle
    /\ OrderIdle
    /\ lazy_value \in LazyValues
    /\ classified = NotClassified

Classify ==
    /\ classified = NotClassified
    /\ classified' = is_symbol_table_struct(lazy_value)
    /\ UNCHANGED << lazy_value, reader_vars, writer_vars, commit_vars, order_vars >>

NextClassify == Classify

SpecClassify == InitClassify /\ [][NextClassify]_vars

\* ---------------------------------------------------------------- the writer
\* One value is written through the annotatable value writer of a top-level
\* buffer that holds the encoding of the values written earlier.
InitWriter ==
    /\ ReaderIdle
    /\ ClassifyIdle
    /\ CommitIdle
    /\ OrderIdle
    /\ earlier \in EarlierValues
    /\ output_buffer = write_children(<< >>, earlier, FALSE).buffer
    /\ before = << >>
    /\ request = NoRequest
    /\ result = "none"

Write ==
    /\ result = "none"
    /\ \E v \in Requests :
         LET r == write(output_buffer, v)
         IN  /\ output_buffer' = r.buffer
             /\ result' = r.err
             /\ request' = v
    /\ before' = output_buffer
    /\ UNCHANGED << earlier, reader_vars, classify_vars, commit_vars, order_vars >>

NextWriter == Write

SpecWriter == InitWriter /\ [][NextWriter]_vars

\* ------------------------------------------------------------------ commits
\* apply_pending_lst called on a live table and a PendingLst that a scan has
\* filled, and then called again with nothing processed in between.
LocalSymbols == { Some("a"), Some("b"), None }
SymbolTables == { SystemSymbols \o l : l \in SeqsUpTo(LocalSymbols, MaxLocals) }
PendingLsts ==
    { [has_changes |-> TRUE, is_lst_append |-> a, symbols |-> l] :
          a \in BOOLEAN, l \in SeqsUpTo(LocalSymbols, MaxListLen) }

InitCommit ==
    /\ ReaderIdle
    /\ ClassifyIdle
    /\ WriterIdle
    /\ OrderIdle
    /\ commit_table \in SymbolTables
    /\ commit_pending \in PendingLsts
    /\ commit_calls = 0
    /\ commit_first = [symbol_table |-> SystemSymbols, pending_lst |-> PendingLst_new]

ApplyPendingLst ==
    /\ commit_calls < 2
    /\ LET r == apply_pending_lst(commit_table, commit_pending)
       IN  /\ commit_table' = r.symbol_table
           /\ commit_pending' = r.pending_lst
           /\ commit_first' = IF commit_calls = 0 THEN r ELSE commit_first
    /\ commit_calls' = commit_calls + 1
    /\ UNCHANGED << reader_vars, classify_vars, writer_vars, order_vars >>

NextCommit == ApplyPendingLst

SpecCommit == InitCommit /\ [][NextCommit]_vars

\* -------------------------------------------------------------- field order
\* process_symbol_table and the commit that follows, run on a structure and on
\* the structure that has the same fields in another order.
OrderFields ==
    { [name |-> SymbolId(SYMBOLS), value |-> ListValue(<< StringElem("a"), NullElem >>)],
      [name |-> Text("symbols"), value |-> ListValue(<< StringElem("symbols") >>)],
      [name |-> SymbolId(SYMBOLS), value |-> NullValue],
      [name |-> SymbolId(IMPORTS), value |-> SymbolValue(SymbolId(ION_SYMBOL_TABLE))],
      [name |-> Text("imports"), value |-> SymbolValue(SymbolId(4))],
      [name |-> SymbolId(IMPORTS), value |-> ListValue(<< >>)],
      [name |-> SymbolId(4), value |-> ListValue(<< StringElem("a") >>)],
      [name |-> SymbolId(4), value |-> SymbolValue(SymbolId(ION_SYMBOL_TABLE))] }

\* The orders in which a struct can carry the given fields.
Reordered(fields) ==
    LET n == Len(fields)
    IN  { [i \in 1..n |-> fields[p[i]]] :
              p \in { q \in [1..n -> 1..n] : \A i, j \in 1..n : q[i] = q[j] => i = j } }

\* The reader when the scan starts: with or without a local symbol in the
\* live table, and with the PendingLst as a commit leaves it.
OrderStarts ==
    { [symbol_table |-> t, pending_lst |-> p] :
          t \in { SystemSymbols, Append(SystemSymbols, Some("b")) },
          p \in { PendingLst_new, [PendingLst_new EXCEPT !.is_lst_append = TRUE] } }

\* process_symbol_table on the fields and, when it succeeds, the commit.
ScanAndCommit(start, fields) ==
    LET r == process_symbol_table(start.pending_lst, fields)
    IN  [err |-> r.err,
         pending_lst |-> r.pending_lst,
         symbol_table |-> IF r.err THEN start.symbol_table
                          ELSE apply_pending_lst(start.symbol_table, r.pending_lst).symbol_table]

InitOrder ==
    /\ ReaderIdle
    /\ ClassifyIdle
    /\ WriterIdle
    /\ CommitIdle
    /\ order_fields \in SeqsUpTo(OrderFields, MaxStructLen)
    /\ order_permuted \in Reordered(order_fields)
    /\ order_start \in OrderStarts
    /\ order_outcome = NotScanned

ScanBoth ==
    /\ ~order_outcome.done
    /\ order_outcome' = [done |-> TRUE,
                         a |-> ScanAndCommit(order_start, order_fields),
                         b |-> ScanAndCommit(order_start, order_permuted)]
    /\ UNCHANGED << order_fields, order_permuted, order_start >>
    /\ UNCHANGED << reader_vars, classify_vars, writer_vars, commit_vars >>

NextOrder == ScanBoth

SpecOrder == InitOrder /\ [][NextOrder]_vars

\* ------------------------------------------------------------------ claims
\* The pending entries a `symbols` list stands for: the text of each string
\* element, no text for any other element.
ExpectedEntries(elems) ==
    [i \in 1..Len(elems) |-> IF elems[i].type = "string" THEN Some(elems[i].text) ELSE None]

NSys == Len(SystemSymbols)
CommitStep == pc = "idle" /\ pc' = "committed"

\* C1: after every commit of a structure that does not carry
\* `imports: $ion_symbol_table`, the live table is the system symbols followed by
\* exactly that structure's own symbols, whatever was processed and committed
\* before it.
C1_ReplaceWhateverCameBefore ==
    (pc = "committed" /\ ~struct_append) =>
        symbol_table = SystemSymbols \o ExpectedEntries(struct_list)

\* C2: a replacement commit of a structure with symbols s1..sk leaves a table of
\* exactly NSys + k entries: the system symbols at their IDs, then s1..sk at the
\* k IDs that follow, in list order; no earlier local symbol remains.
C2_ReplacementCommit ==
    [][(CommitStep /\ ~struct_append) =>
          LET s == ExpectedEntries(struct_list)
          IN  /\ Len(symbol_table') = NSys + Len(s)
              /\ \A i \in 1..NSys : symbol_table'[i] = SystemSymbols[i]
              /\ \A i \in 1..Len(s) : symbol_table'[NSys + i] = s[i]]_vars

\* C3: an append commit of a structure with `imports: $ion_symbol_table` and
\* symbols s1..sk keeps every entry of the live table at its ID and adds s1..sk
\* after them in list order; with k = 0 the table is unchanged.
C3_AppendCommit ==
    [][(CommitStep /\ struct_append) =>
          LET s == ExpectedEntries(struct_list)
              n == Len(symbol_table)
          IN  /\ Len(symbol_table') = n + Len(s)
              /\ \A i \in 1..n : symbol_table'[i] = symbol_table[i]
              /\ \A i \in 1..Len(s) : symbol_table'[n + i] = s[i]
              /\ (s = <<>> => symbol_table' = symbol_table)]_vars

C3_Witness ==
    /\ pc = "committed"
    /\ struct_append
    /\ struct_list # <<>>
    /\ Len(symbol_table) > NSys + Len(struct_list)

\* C4: process_symbol_table fails on a second `symbols` field, on a second
\* `imports` field and on an `imports` field whose value is a list, and no step
\* of process_symbol_table changes the live table, so the table after the
\* failure is the table before the call.
C4_ErrorsLeaveTable ==
    [][/\ (pc \in {"iter", "body"}) => symbol_table' = symbol_table
       /\ (/\ pc = "body"
           /\ \/ IsSymbolsName(field.name) /\ seen_symbols >= 2
              \/ IsImportsName(field.name) /\ seen_imports >= 2
              \/ IsImportsName(field.name) /\ field.value.type = "list")
          => pc' = "failed"]_vars

C4_Witness ==
    /\ pc = "failed"
    /\ seen_symbols = 2
    /\ Len(symbol_table) > NSys

\* C5: when apply_pending_lst has returned, the pending LST is in its empty
\* initial state: no symbols, is_lst_append false, has_changes false.
C5_PendingEmptyAfterCommit ==
    pc = "committed" => pending_lst = PendingLst_new

\* C6: in every reachable state the system symbols are in the live table at
\* their fixed IDs with their text ($ion_symbol_table = 3, imports = 6,
\* symbols = 7) and the assigned IDs are 1..n with no gap.
C6_SystemSymbolsFixed ==
    /\ Len(symbol_table) >= NSys
    /\ \A i \in 1..NSys : symbol_table[i] = SystemSymbols[i]
    /\ symbol_table[ION_SYMBOL_TABLE] = Some("$ion_symbol_table")
    /\ symbol_table[IMPORTS] = Some("imports")
    /\ symbol_table[SYMBOLS] = Some("symbols")
    /\ DOMAIN symbol_table = 1..Len(symbol_table)

C6_Witness ==
    /\ pc = "committed"
    /\ ~struct_append
    /\ Len(symbol_table) > NSys
    /\ \E i \in NSys + 1..Len(symbol_table) : symbol_table[i] = None

\* C7: a commit of k pending entries assigns k new consecutive IDs, one per entry
\* in order, after the live table (append) or after the system symbols
\* (replacement): an entry with no text and an entry whose text is already in
\* the table each take an ID of their own.
C7_CommitAssignsKIds ==
    [][CommitStep =>
          LET k == Len(pending_lst.symbols)
              base == IF pending_lst.is_lst_append THEN Len(symbol_table) ELSE NSys
          IN  /\ Len(symbol_table') = base + k
              /\ \A i \in 1..k : symbol_table'[base + i] = pending_lst.symbols[i]]_vars

C7_Witness ==
    /\ pc = "committed"
    /\ Len(symbol_table) = NSys + 2
    /\ \E i, j \in NSys + 1..Len(symbol_table) :
          symbol_table[i] = None /\ symbol_table[j] = Some("symbols")

\* C8: when an item is handed to the consumer after a symbol-table structure,
\* and when the scan of the next symbol-table structure starts, nothing of the
\* earlier structure is left pending: its symbols are the last entries of the
\* live table and the pending symbols list is empty.
C8_CommittedBeforeNextItem ==
    /\ (pc = "idle" /\ surfaced = "value") =>
          LET s == ExpectedEntries(struct_list)
              n == Len(symbol_table)
          IN  /\ pending_lst.symbols = <<>>
              /\ ~pending_lst.has_changes
              /\ n >= NSys + Len(s)
              /\ \A i \in 1..Len(s) : symbol_table[n - Len(s) + i] = s[i]
    /\ (pc = "iter" /\ nfields = 0) =>
          pending_lst.symbols = <<>> /\ ~pending_lst.has_changes

C8_Witness ==
    /\ pc = "idle"
    /\ surfaced = "value"
    /\ Len(struct_list) = 2
    /\ Len(symbol_table) = NSys + 2

\* C9: the first `symbols` field of a structure appends to the pending symbols
\* one entry per element of its list, in order (the text of a string, no text
\* for any other element); a value that is not a list appends nothing; neither
\* raises an error.
C9_ProcessSymbols ==
    [][(pc = "body" /\ IsSymbolsName(field.name) /\ seen_symbols = 1) =>
          /\ pc' = "iter"
          /\ pending_lst'.symbols =
                pending_lst.symbols \o
                    (IF field.value.type = "list"
                     THEN ExpectedEntries(field.value.elems) ELSE <<>>)
          /\ pending_lst'.is_lst_append = pending_lst.is_lst_append]_vars

C9_Witness ==
    /\ pc = "iter"
    /\ found_symbols_field
    /\ pending_lst.symbols = <<Some("a"), None>>

\* C10: the first `imports` field of a structure sets is_lst_append when its
\* value is the symbol $ion_symbol_table (ID 3 or text) and changes nothing else;
\* a value that is null, another symbol or another scalar leaves the pending LST
\* as it was; neither raises an error.
C10_ProcessImports ==
    [][(pc = "body" /\ IsImportsName(field.name) /\ seen_imports = 1
          /\ field.value.type # "list") =>
          /\ pc' = "iter"
          /\ pending_lst' = IF IsMarker(field.value)
                            THEN [pending_lst EXCEPT !.is_lst_append = TRUE]
                            ELSE pending_lst]_vars

C10_Witness ==
    /\ pc = "iter"
    /\ found_imports_field
    /\ pending_lst.is_lst_append
    /\ ~found_symbols_field

\* C11: is_symbol_table_struct returns true exactly when the value is a struct
\* and the first of its annotations is symbol ID 3 or the text
\* `$ion_symbol_table`; a struct carrying the marker in a later position and a
\* value of another type carrying it first are not symbol table structures.
C11_IsSymbolTableStruct ==
    classified # NotClassified =>
        ( classified = OkBool(TRUE)
          <=> /\ lazy_value.ion_type = "struct"
              /\ Len(lazy_value.annotations) >= 1
              /\ lazy_value.annotations[1] \in {SymbolId(3), Text("$ion_symbol_table")} )

C11_Witness ==
    /\ classified = OkBool(FALSE)
    /\ lazy_value.ion_type = "struct"
    /\ lazy_value.annotations = << SymbolId(4), SymbolId(3) >>

\* C12: the only decoding errors process_symbol_table returns are those for a
\* second `symbols` field, a second `imports` field and an `imports` field
\* whose value is a list; every other structure that is_symbol_table_struct
\* accepted, a null struct included, is processed without error.
C12_OnlyThreeDecodingErrors ==
    [][(pc # "failed" /\ pc' = "failed")
       => /\ pc = "body"
          /\ \/ IsSymbolsName(field.name) /\ seen_symbols >= 2
             \/ IsImportsName(field.name) /\ seen_imports >= 2
             \/ IsImportsName(field.name) /\ field.value.type = "list"]_vars

\* ------------------------------------------------------------- writer claims
\* The bytes the write appended to the buffer it found.
Emitted == SubSeq(output_buffer, Len(before) + 1, Len(output_buffer))
Wrote == result = "ok"
WithoutAnnotations(v) == [v EXCEPT !.annotations = << >>]
\* The value encoded on its own, as the wrapper encodes it into a fresh buffer.
EncodedValue(v) == value_writer(<< >>, WithoutAnnotations(v)).buffer

\* The number a VarUInt at the head of bytes stands for, and its length.
RECURSIVE VarUIntValue(_)
VarUIntValue(bytes) ==
    IF Head(bytes) >= 128 THEN Head(bytes) - 128
    ELSE Head(bytes) + 128 * VarUIntValue(Tail(bytes))
RECURSIVE VarUIntLen(_)
VarUIntLen(bytes) == IF Head(bytes) >= 128 THEN 1 ELSE 1 + VarUIntLen(Tail(bytes))

\* A VarUInt ends within bytes.
HasVarUInt(bytes) == \E i \in 1..Len(bytes) : bytes[i] >= 128

\* The length L that a descriptor and the bytes after it announce.
AnnouncedLength(bytes) ==
    IF bytes[1] % 16 <= 13 THEN bytes[1] % 16
    ELSE IF HasVarUInt(Tail(bytes)) THEN VarUIntValue(Tail(bytes)) ELSE -1

\* bytes is the encoding of a value whose representation takes L bytes: L is
\* in the low nibble when L <= 13, and otherwise the nibble is 14 and the
\* VarUInt of L follows; the representation comes last.
LengthRule(bytes, L) ==
    LET length_bytes == VarUInt_write_u64(L)
    IN  /\ AnnouncedLength(bytes) = L
        /\ IF L <= 13
           THEN bytes[1] % 16 = L /\ Len(bytes) = 1 + L
           ELSE /\ bytes[1] % 16 = 14
                /\ SubSeq(bytes, 2, 1 + Len(length_bytes)) = length_bytes
                /\ Len(bytes) = 1 + Len(length_bytes) + L

RECURSIVE AnnotationBytes(_)
AnnotationBytes(annotations) ==
    IF annotations = << >> THEN << >>
    ELSE VarUInt_write_u64(Head(annotations).sid) \o AnnotationBytes(Tail(annotations))

\* The total length of an annotations wrapper: annotations length field,
\* annotations, value.
WrapperLength(v) ==
    LET S == AnnotationBytes(v.annotations)
    IN  Len(VarUInt_write_u64(Len(S))) + Len(S) + Len(EncodedValue(v))

\* The length of the representation of the value written, for the writes that
\* encode a length.
RepresentationLength(v) ==
    IF v.annotations # << >> THEN WrapperLength(v)
    ELSE IF v.op \in {"write_string", "write_clob", "write_blob"} THEN Len(v.bytes)
    ELSE Len(v.int.magnitude)

EncodesLength(v) ==
    \/ v.annotations # << >>
    \/ v.op \in {"write_string", "write_clob", "write_blob"}
    \/ v.op = "write_int" /\ v.int.data = "BigInt"

\* C13: write_string, write_clob, write_blob, the BigInt path of write_int and
\* the annotations wrapper put a length L <= 13 in the low nibble of the
\* descriptor with no length bytes, and for L > 13 put 14 there and the
\* VarUInt of L after it; no write other than write_null emits low nibble 15;
\* the descriptor and the VarUInt give L back.
C13_LengthEncoding ==
    Wrote =>
        /\ EncodesLength(request) => LengthRule(Emitted, RepresentationLength(request))
        /\ (request.annotations # << >> \/ request.op # "write_null")
              => Emitted[1] % 16 # 15

C13_Witness ==
    /\ Wrote
    /\ request = String(Payload(14, 97))
    /\ Emitted[1] = 142
    /\ Emitted[2] = 142

\* The big-endian bytes stand for the number n and start with no zero byte.
RECURSIVE BigEndianValue(_)
BigEndianValue(bytes) ==
    IF bytes = << >> THEN 0
    ELSE 256 * BigEndianValue(SubSeq(bytes, 1, Len(bytes) - 1)) + bytes[Len(bytes)]
MinimalMagnitude(bytes, n) ==
    /\ bytes # << >> => bytes[1] # 0
    /\ BigEndianValue(bytes) = n

\* The integers written in both representations.
IsSmallInt(v) ==
    /\ v.annotations = << >>
    /\ \/ v.op = "write_i64"
       \/ v.op = "write_int" /\ \E i \in IntValues : v.int \in {I64(i), BigIntOf(i)}
SmallIntOf(v) ==
    IF v.int.data = "I64" THEN v.int.i
    ELSE CHOOSE i \in IntValues : v.int = BigIntOf(i)

\* C14: write_i64 and write_int emit type code 2 for v >= 0 and 3 for v < 0,
\* then the minimal big-endian bytes of |v|; zero is the single byte 0x20; the
\* i64 and the BigInt holding the same integer give the same bytes.
C14_IntEncoding ==
  /\ (Wrote /\ request.annotations = << >> /\ request.op = "write_int"
       /\ request.int.data = "BigInt") =>
        LET magnitude == request.int.magnitude
        IN  /\ Emitted[1] \div 16 = (IF request.int.sign = "Minus" THEN 3 ELSE 2)
            /\ SubSeq(Emitted, Len(Emitted) - Len(magnitude) + 1, Len(Emitted)) = magnitude
            /\ Len(Emitted) = Len(magnitude) + (IF Len(magnitude) <= 13 THEN 1 ELSE
                                  1 + Len(VarUInt_write_u64(Len(magnitude))))
  /\ (Wrote /\ IsSmallInt(request)) =>
        LET v == SmallIntOf(request)
            magnitude == Tail(Emitted)
        IN  /\ Emitted[1] = 16 * (IF v >= 0 THEN 2 ELSE 3) + Len(magnitude)
            /\ MinimalMagnitude(magnitude, IF v >= 0 THEN v ELSE 0 - v)
            /\ v = 0 => Emitted = << 32 >>
            /\ Emitted = write_int(<< >>, I64(v)).buffer
            /\ Emitted = write_int(<< >>, BigIntOf(v)).buffer
            /\ Emitted = write_i64(<< >>, v).buffer

C14_Witness ==
    /\ Wrote
    /\ request = Integer(BigIntOf(0))
    /\ Emitted = << 32 >>

\* C15: write_f32 and write_f64 emit the single byte 0x40 exactly for positive
\* zero; every other f32 is 0x44 and its 4 bytes, every other f64 is 0x48 and
\* its 8 bytes, big-endian; -0.0f32 is 0x44 0x80 0x00 0x00 0x00.
C15_FloatEncoding ==
    (Wrote /\ request.annotations = << >> /\ request.op \in {"write_f32", "write_f64"}) =>
        LET positive_zero == \A i \in 1..Len(request.bytes) : request.bytes[i] = 0
        IN  /\ Emitted = << 64 >> <=> positive_zero
            /\ ~positive_zero =>
                  Emitted = << IF request.op = "write_f32" THEN 68 ELSE 72 >> \o request.bytes
            /\ request = F32(<< 128, 0, 0, 0 >>) => Emitted = << 68, 128, 0, 0, 0 >>

C15_Witness ==
    /\ Wrote
    /\ request = F32(<< 128, 0, 0, 0 >>)
    /\ Emitted = << 68, 128, 0, 0, 0 >>

HasTextAnnotation(v) == \E i \in 1..Len(v.annotations) : v.annotations[i].k = "text"
IsTextSymbol(v) == v.op = "write_symbol" /\ v.tok.k = "text"

\* C16 as stated: a symbol value given as text and an annotation given as text
\* are both refused with the same error kind, Illegal operation.
C16_TextIsIllegalOperation ==
    (result # "none" /\ (IsTextSymbol(request) \/ HasTextAnnotation(request)))
        => result = "illegal_operation"

\* C16, amended: write_symbol refuses a symbol value given as text with an
\* Illegal operation error; a write whose annotations include text is refused
\* with an Encoding error once its value has been encoded; neither is written.
C16_TextRefused ==
    result # "none" =>
        /\ IsTextSymbol(request) => result = "illegal_operation"
        /\ (HasTextAnnotation(request)
            /\ value_writer(<< >>, WithoutAnnotations(request)).err = "ok")
              => result = "encoding"
        /\ (IsTextSymbol(request) \/ HasTextAnnotation(request)) => ~Wrote

C16_Witness ==
    /\ result = "encoding"
    /\ request = Annotated(<< Text("foo") >>, Int64(1))

\* C17: an annotated write appends, in this order, the wrapper descriptor
\* (0xE0 | L for L <= 13, else 0xEE and the VarUInt of L), the VarUInt of the
\* length of the annotations, the VarUInt of each annotation in the order
\* given, and the encoding of the value; L counts the last three.
C17_WrapperLayout ==
    (Wrote /\ request.annotations # << >>) =>
        LET V == EncodedValue(request)
            S == AnnotationBytes(request.annotations)
            Ls == VarUInt_write_u64(Len(S))
            L == Len(Ls) + Len(S) + Len(V)
            descriptor == IF L <= 13 THEN << 224 + L >>
                          ELSE << 238 >> \o VarUInt_write_u64(L)
        IN  output_buffer = before \o descriptor \o Ls \o S \o V

C17_Witness ==
    /\ Wrote
    /\ request = Annotated(<< SymbolId(7), SymbolId(4) >>, String(Payload(13, 97)))
    /\ SubSeq(Emitted, 1, 5) = << 238, 145, 130, 135, 132 >>

\* C18: a write commits the whole encoding of its value to the buffer or
\* nothing: after an annotated write that failed, in the value or on a text
\* annotation, and after write_symbol on text, the buffer holds exactly the
\* bytes it held before.
C18_AllOrNothing ==
    /\ result \notin {"none", "ok"} => output_buffer = before
    /\ Wrote => output_buffer = before \o write(<< >>, request).buffer

C18_Witness ==
    /\ result = "encoding"
    /\ before # << >>
    /\ output_buffer = before
    /\ request.annotations = << SymbolId(4), Text("foo") >>

\* ---------------------------------------------------------------- the decoder
\* Reading binary Ion 1.0 back.  A value that cannot be read is Value("bad").
TypeOfCode(code) ==
    CASE code = 0 -> "null" [] code = 1 -> "bool" [] code = 2 -> "int" [] code = 3 -> "int"
      [] code = 4 -> "float" [] code = 5 -> "decimal" [] code = 6 -> "timestamp"
      [] code = 7 -> "symbol" [] code = 8 -> "string" [] code = 9 -> "clob"
      [] code = 10 -> "blob" [] code = 11 -> "list" [] code = 12 -> "sexp"
      [] code = 13 -> "struct" [] OTHER -> "bad"

\* The number of bytes the value at the head of bytes takes, 0 when there is
\* no whole value.
EncodedSize(bytes) ==
    LET nibble == bytes[1] % 16
        size == IF nibble = 15 \/ bytes[1] \div 16 = 1 THEN 1
                ELSE IF nibble <= 13 THEN 1 + nibble
                ELSE IF ~HasVarUInt(Tail(bytes)) THEN 0
                ELSE 1 + VarUIntLen(Tail(bytes)) + VarUIntValue(Tail(bytes))
    IN  IF bytes = << >> \/ size > Len(bytes) THEN 0 ELSE size

RECURSIVE ReadAnnotations(_)
ReadAnnotations(bytes) ==
    IF bytes = << >> \/ ~HasVarUInt(bytes) THEN << >>
    ELSE << SymbolId(VarUIntValue(bytes)) >>
         \o ReadAnnotations(SubSeq(bytes, VarUIntLen(bytes) + 1, Len(bytes)))

RECURSIVE ReadAll(_, _)
RECURSIVE ReadOne(_)

\* The value that the bytes, one whole encoded value, stand for.
ReadOne(bytes) ==
    LET code == bytes[1] \div 16
        nibble == bytes[1] % 16
        header == IF nibble = 14 THEN 1 + VarUIntLen(Tail(bytes)) ELSE 1
        body == SubSeq(bytes, header + 1, Len(bytes))
    IN  IF nibble = 15 THEN (IF code <= 13 THEN Null(TypeOfCode(code)) ELSE Value("bad"))
        ELSE CASE code = 1 -> IF nibble <= 1 THEN Bool(nibble = 1) ELSE Value("bad")
               [] code = 2 -> Integer(BigInt(IF body = << >> THEN "NoSign" ELSE "Plus", body))
               [] code = 3 -> IF body = << >> THEN Value("bad")
                              ELSE Integer(BigInt("Minus", body))
               [] code = 4 -> IF nibble = 0 THEN F64(Payload(8, 0))
                              ELSE IF nibble = 4 THEN F32(body)
                              ELSE IF nibble = 8 THEN F64(body) ELSE Value("bad")
               [] code = 7 -> Symbol(SymbolId(BigEndianValue(body)))
               [] code = 8 -> String(body)
               [] code = 9 -> Clob(body)
               [] code = 10 -> Blob(body)
               [] code = 11 -> List(ReadAll(body, FALSE))
               [] code = 12 -> SExp(ReadAll(body, FALSE))
               [] code = 13 -> Struct(ReadAll(body, TRUE))
               [] code = 14 ->
                    IF ~HasVarUInt(body) THEN Value("bad")
                    ELSE LET length_size == VarUIntLen(body)
                             annotations_size == VarUIntValue(body)
                             annotations == ReadAnnotations(
                                 SubSeq(body, length_size + 1, length_size + annotations_size))
                             values == ReadAll(
                                 SubSeq(body, length_size + annotations_size + 1, Len(body)),
                                 FALSE)
                         IN  IF Len(values) = 1 /\ annotations # << >>
                                /\ values[1].annotations = << >>
                             THEN Annotated(annotations, values[1])
                             ELSE Value("bad")
               [] OTHER -> Value("bad")

\* The values that the bytes stand for, in order; in a struct each value is
\* preceded by the VarUInt of its field name.
ReadAll(bytes, is_struct) ==
    IF bytes = << >> THEN << >>
    ELSE IF is_struct /\ ~HasVarUInt(bytes) THEN << Value("bad") >>
    ELSE LET name_size == IF is_struct THEN VarUIntLen(bytes) ELSE 0
             name == IF is_struct THEN VarUIntValue(bytes) ELSE 0
             rest == SubSeq(bytes, name_size + 1, Len(bytes))
             size == EncodedSize(rest)
         IN  IF size = 0 THEN << Value("bad") >>
             ELSE << Field(name, ReadOne(SubSeq(rest, 1, size))) >>
                  \o ReadAll(SubSeq(rest, size + 1, Len(rest)), is_struct)

\* The Ion value that a written value stands for: an integer is its sign and
\* magnitude whichever representation held it, a positive zero is the same
\* float in both widths.
RECURSIVE Normal(_)
Normal(v) ==
    LET base == CASE v.op = "write_i64" -> Integer(BigIntOf(v.int.i))
                  [] v.op = "write_int" /\ v.int.data = "I64" -> Integer(BigIntOf(v.int.i))
                  [] v.op = "write_f32" /\ v.bytes = Payload(4, 0) -> F64(Payload(8, 0))
                  [] OTHER -> v
    IN  [base EXCEPT !.children = [i \in 1..Len(v.children) |-> Normal(v.children[i])],
                     !.annotations = v.annotations,
                     !.field = v.field]

\* C19: reading back the bytes of a sequence of written values gives a
\* sequence of the same length whose values equal the written ones, in order.
C19_RoundTrip ==
    Wrote =>
        ReadAll(output_buffer, FALSE)
            = [i \in 1..Len(earlier) |-> Normal(earlier[i])] \o << Normal(request) >>

C19_Witness ==
    /\ Wrote
    /\ earlier = << Int64(1), String(Payload(1, 97)) >>
    /\ request = Annotated(<< SymbolId(4), SymbolId(7) >>,
                           List(<< List(<< Int64(1), Int64(-2) >>), Int64(1) >>))
    /\ Len(ReadAll(output_buffer, FALSE)) = 3

\* C20: a list, an s-expression and a struct written with no child are each
\* exactly one byte, 0xB0, 0xC0, 0xD0, which reads back as the empty list,
\* s-expression or struct.
C20_EmptyContainers ==
    (Wrote /\ request \in {List(<< >>), SExp(<< >>), Struct(<< >>)}) =>
        /\ request = List(<< >>) => Emitted = << 176 >>
        /\ request = SExp(<< >>) => Emitted = << 192 >>
        /\ request = Struct(<< >>) => Emitted = << 208 >>
        /\ ReadAll(Emitted, FALSE) = << request >>

C20_Witness ==
    /\ Wrote
    /\ request = Struct(<< >>)
    /\ Emitted = << 208 >>

\* C21: every write only appends to its buffer: the bytes the buffer held
\* before the call are an unchanged prefix of the buffer after it, whether the
\* write succeeded or failed.
C21_AppendOnly ==
    result # "none" =>
        /\ Len(output_buffer) >= Len(before)
        /\ SubSeq(output_buffer, 1, Len(before)) = before

C21_Witness ==
    /\ Wrote
    /\ earlier = << Int64(1), String(Payload(1, 97)) >>
    /\ before = << 33, 1, 129, 97 >>
    /\ request = Blob(Payload(2, 224))
    /\ output_buffer = << 33, 1, 129, 97, 162, 224, 224 >>

\* C22: when process_symbol_table fails with a decoding error, the pending LST
\* is exactly what it was when the call began: nothing an earlier field of
\* the failing structure pushed or set remains queued.
C22_FailureRestoresPending ==
    pc = "failed" => pending_lst = pending_before

\* C23 as stated: a second apply_pending_lst with no structure processed in
\* between leaves the live table and the pending LST as the first call left
\* them.
C23_CommitIdempotent ==
    commit_calls = 2 =>
        /\ commit_table = commit_first.symbol_table
        /\ commit_pending = commit_first.pending_lst

\* C23: a second apply_pending_lst with no structure processed in between
\* leaves the pending LST as the first call left it; it leaves the live table
\* as the first call left it when the first call was the no-op of an empty
\* append, and otherwise resets it to the system symbols.
C23_SecondCommit ==
    commit_calls = 2 =>
        /\ commit_pending = commit_first.pending_lst
        /\ commit_table = IF commit_first.pending_lst.is_lst_append
                          THEN commit_first.symbol_table
                          ELSE SystemSymbols

C23_Witness ==
    /\ commit_calls = 2
    /\ commit_first.symbol_table = SystemSymbols \o << Some("a"), None >>
    /\ commit_first.pending_lst.symbols = << >>
    /\ ~commit_first.pending_lst.is_lst_append
    /\ commit_table = SystemSymbols

====
